---- MODULE Spec2Model ----
(***************************************************************************)
(* A model of src/src/archive.rs (tar-rs): the Archive's shared position,  *)
(* the random-access cursor (Entries), the streaming cursor (EntriesMut),  *)
(* header decoding with its checksum, and unpack.                          *)
(*                                                                         *)
(* The source is modelled byte for byte: a record is 512 bytes, offsets    *)
(* are byte offsets, and a header is decoded from the bytes the reads      *)
(* return.                                                                 *)
(***************************************************************************)
EXTENDS Integers, Sequences, FiniteSets, TLC

-----------------------------------------------------------------------------
(* Bounds of the model.                                                    *)

\* Longest archive, in entries.
MaxEntries == 2
\* Body reads the consumer issues in one run.
MaxBodyReads == 2
\* Cursor constructions (entries / entries_mut / unpack calls) in one run.
MaxSessions == 2
\* Random-access cursors alive at once.
MaxCursors == 1
\* An injected source failure hits one of the first MaxFuse source calls of a
\* handler.
MaxFuse == 1

-----------------------------------------------------------------------------
(* Program constants.                                                      *)

\* let mut chunk = [0; 512]
RecordLen == 512
\* chunk[..148]
CksumLo == 148
\* chunk[156..]
CksumHi == 156
\* 32 * 8: the checksum field counted as eight spaces
CksumBlank == 256
\* let mut buf = [0u8; 4096 * 8]
SkipBufLen == 32768
\* The modulus of the u64 subtraction self.next - pos.  TLC's integers are 32
\* bits wide, so 2^30 stands for 2^64: both exceed every source's length.
Modulus == 1073741824

\* Header Codec layout (external to archive.rs): name is bytes [0, 100),
\* size is bytes [124, 136).
NameLen == 100
SizeLo == 124
SizeHi == 136
\* The buffer of the copy loop that Entry::unpack drives.
CopyBufLen == 8192

Min(a, b) == IF a < b THEN a ELSE b

-----------------------------------------------------------------------------
(* Bytes.                                                                  *)

NUL == 0
SP == 32
SLASH == 47
DOT == 46
Digit0 == 48

Zeros(n) == [i \in 1..n |-> 0]

\* iter().map(|i| *i as u32).fold(0, |a, b| a + b) over s[lo..hi] (0-based,
\* hi exclusive); the sum is split in halves to keep the evaluation shallow.
RECURSIVE SumRange(_, _, _)
SumRange(s, lo, hi) ==
    IF hi <= lo THEN 0
    ELSE IF hi = lo + 1 THEN s[lo + 1]
    ELSE LET mid == (lo + hi) \div 2
         IN SumRange(s, lo, mid) + SumRange(s, mid, hi)

\* A seeded fault: no record is taken for a zero record.
NeverZero(chunk) == FALSE

\* chunk.iter().all(|i| *i == 0)
AllZero(chunk) == \A i \in 1..Len(chunk) : chunk[i] = 0

\* x & !(m), bit by bit, for m = 2^k - 1: clears the low bits of x.
RECURSIVE AndNot(_, _)
AndNot(x, m) ==
    IF x = 0 THEN 0
    ELSE LET xb == x % 2
             mb == m % 2
             bit == IF xb = 1 /\ mb = 0 THEN 1 ELSE 0
         IN bit + 2 * AndNot(x \div 2, m \div 2)

-----------------------------------------------------------------------------
(* Header Codec: Header::size, Header::cksum, Header::path.  This code is  *)
(* not in archive.rs; it is modelled from the specification (octal         *)
(* fields, NUL-terminated).                                                *)

\* The bytes of a field before its first NUL.
RECURSIVE Truncate(_)
Truncate(f) ==
    IF f = << >> \/ Head(f) = NUL THEN << >>
    ELSE << Head(f) >> \o Truncate(Tail(f))

RECURSIVE TrimLeft(_)
TrimLeft(f) == IF f # << >> /\ Head(f) = SP THEN TrimLeft(Tail(f)) ELSE f

RECURSIVE TrimRight(_)
TrimRight(f) ==
    IF f # << >> /\ f[Len(f)] = SP THEN TrimRight(SubSeq(f, 1, Len(f) - 1)) ELSE f

IsOctal(f) == f # << >> /\ \A i \in 1..Len(f) : f[i] \in Digit0..(Digit0 + 7)

\* The value of the first n octal digits of f.
RECURSIVE OctalUpTo(_, _)
OctalUpTo(f, n) ==
    IF n = 0 THEN 0 ELSE 8 * OctalUpTo(f, n - 1) + (f[n] - Digit0)

OctalValue(f) == OctalUpTo(f, Len(f))

\* A numeric field: [ok |-> TRUE, val |-> n] or [ok |-> FALSE].
OctalFrom(field) ==
    LET t == TrimRight(TrimLeft(Truncate(field)))
    IN IF IsOctal(t) THEN [ok |-> TRUE, val |-> OctalValue(t)]
       ELSE [ok |-> FALSE, val |-> 0]

HeaderSize(chunk) == OctalFrom(SubSeq(chunk, SizeLo + 1, SizeHi))
HeaderCksum(chunk) == OctalFrom(SubSeq(chunk, CksumLo + 1, CksumHi))
HeaderPath(chunk) == Truncate(SubSeq(chunk, 1, NameLen))

\* n in octal, w digits wide.
RECURSIVE OctalDigits(_, _)
OctalDigits(n, w) ==
    IF w = 0 THEN << >>
    ELSE OctalDigits(n \div 8, w - 1) \o << Digit0 + (n % 8) >>

-----------------------------------------------------------------------------
(* The wire layout (specification, section 6): an entry is one header      *)
(* record followed by its body padded with zeros to a whole number of      *)
(* records; two all-zero records end the archive.  These definitions build *)
(* the byte sources the program is run on.                                 *)

Str_f == << 102 >>
Str_e == << 101 >>
Str_d == << 100 >>
Str_g == << 103 >>
Str_dotdot == << DOT, DOT >>

\* "f", "d/g", "../e", "d/../f", "./", "/f"
PathF == Str_f
PathDG == Str_d \o << SLASH >> \o Str_g
PathUpE == Str_dotdot \o << SLASH >> \o Str_e
PathDUpF == Str_d \o << SLASH >> \o Str_dotdot \o << SLASH >> \o Str_f
PathDot == << DOT, SLASH >>
PathRootF == << SLASH >> \o Str_f

\* The entries archives are made of: every size of {0, 1, 511, 512, 513} and
\* every kind of path occurs.
Catalog ==
    << [path |-> PathF, size |-> 1],
       [path |-> PathUpE, size |-> 511],
       [path |-> PathDG, size |-> 513],
       [path |-> PathDUpF, size |-> 512],
       [path |-> PathRootF, size |-> 0],
       [path |-> PathDot, size |-> 1] >>

\* The n entries of the catalog from the i-th on, cyclically.
Window(i, n) == [k \in 1..n |-> Catalog[((i + k - 2) % Len(Catalog)) + 1]]

Windows(lo, hi) == { Window(i, n) : i \in 1..Len(Catalog), n \in lo..hi }

\* A header record without its checksum (the field holds eight spaces).
HeaderBlank(e) ==
    e.path \o Zeros(NameLen - Len(e.path))            \* name     [0, 100)
    \o OctalDigits(420, 7) \o << NUL >>                \* mode     [100, 108)
    \o OctalDigits(0, 7) \o << NUL >>                  \* uid      [108, 116)
    \o OctalDigits(0, 7) \o << NUL >>                  \* gid      [116, 124)
    \o OctalDigits(e.size, 11) \o << NUL >>            \* size     [124, 136)
    \o OctalDigits(0, 11) \o << NUL >>                 \* mtime    [136, 148)
    \o [i \in 1..8 |-> SP]                             \* cksum    [148, 156)
    \o << Digit0 >>                                    \* typeflag [156, 157)
    \o Zeros(RecordLen - 157)

HeaderOf(e) ==
    LET b == HeaderBlank(e)
        ck == SumRange(b, 0, RecordLen)
    IN SubSeq(b, 1, CksumLo) \o OctalDigits(ck, 6) \o << NUL, SP >>
       \o SubSeq(b, CksumHi + 1, RecordLen)

\* The body of the k-th entry: non-zero bytes that differ between entries.
BodyOf(k, size) == [j \in 1..size |-> 1 + ((k * 97 + j * 7) % 250)]

PadLen(size) == (RecordLen - (size % RecordLen)) % RecordLen

EntryBytes(k, e) == HeaderOf(e) \o BodyOf(k, e.size) \o Zeros(PadLen(e.size))

RECURSIVE EntriesBytes(_, _)
EntriesBytes(ents, k) ==
    IF k > Len(ents) THEN << >>
    ELSE EntryBytes(k, ents[k]) \o EntriesBytes(ents, k + 1)

\* Where the k-th header of a well-formed archive starts.
RECURSIVE HeaderOffset(_, _)
HeaderOffset(ents, k) ==
    IF k <= 1 THEN 0
    ELSE HeaderOffset(ents, k - 1) + RecordLen + ents[k - 1].size
         + PadLen(ents[k - 1].size)

\* What follows the entries:
\*   "zz"    two zero records (well formed)
\*   "z"     one zero record, then end of input
\*   "zj"    a zero record, then a non-zero record that is no header
\*   "zh"    a zero record, then a valid header
\*   "none"  end of input right after the last body
\*   "part"  the first 200 bytes of a header, then end of input
\*   "short" the entries' bytes without their last 300 bytes
Tails == {"zz", "z", "zj", "zh", "none", "part", "short"}

TailBytes(tail) ==
    CASE tail = "zz" -> Zeros(2 * RecordLen)
      [] tail = "z" -> Zeros(RecordLen)
      [] tail = "zj" -> Zeros(RecordLen) \o [i \in 1..RecordLen |-> 7]
      [] tail = "zh" -> Zeros(RecordLen) \o HeaderOf([path |-> PathF, size |-> 0])
      [] tail = "part" -> SubSeq(HeaderOf([path |-> PathF, size |-> 0]), 1, 200)
      [] OTHER -> << >>

BaseBytes(ents, tail) ==
    LET b == EntriesBytes(ents, 1)
    IN IF tail = "short"
       THEN (IF Len(b) >= 300 THEN SubSeq(b, 1, Len(b) - 300) ELSE b)
       ELSE b \o TailBytes(tail)

NoFlip == [idx |-> 0, at |-> 0, val |-> 0]

\* The bytes of archive a: its entries and tail, with one byte of header
\* a.flip.idx (at offset a.flip.at of the header) replaced by a.flip.val.
SourceBytes(a) ==
    LET b == BaseBytes(a.ents, a.tail)
    IN IF a.flip.idx = 0 THEN b
       ELSE [b EXCEPT ![HeaderOffset(a.ents, a.flip.idx) + a.flip.at + 1] = a.flip.val]

WellFormed(a) == a.tail = "zz" /\ a.flip.idx = 0

-----------------------------------------------------------------------------
(* State.                                                                  *)

VARIABLES
    ar,        \* what the source was built from: [ents, tail, flip]
    src,       \* the source's bytes
    maxRead,   \* the most bytes the source returns from one read call
    srcOff,    \* the source's own offset (AlignHigher.1)
    pos,       \* ArchiveInner.pos
    ra,        \* the live EntriesFields, in order of construction
    sm,        \* the live EntriesMutFields (at most one: it borrows &mut)
    ents,      \* the EntryFields yielded and still alive
    up,        \* the _unpack call in progress, and what the last one did
    files,     \* the filesystem: the files, each [path, data]
    dirs,      \* the filesystem: the directories
    ctor,      \* what the last _entries / _entries_mut call returned
    nreads,    \* body reads issued so far
    nsess,     \* cursors constructed and unpack calls so far
    halted,    \* the program panicked
    run        \* the cursor step in progress, when its loops are stepped through

vars == << ar, src, maxRead, srcOff, pos, ra, sm, ents, up, files, dirs, ctor,
           nreads, nsess, halted, run >>

\* The n bytes of the source from offset off.
SrcSlice(off, n) == SubSeq(src, off + 1, off + n)

-----------------------------------------------------------------------------
(* The source and the Archive's reads and seeks.  An I/O state s is        *)
(* [pos, off, fuse, seeks]: the Archive's pos, the source's offset, the    *)
(* number of source calls until one fails (0: none fails), and the seek    *)
(* calls issued on the source so far.  A definition                        *)
(* that ends in Got, Done or the like is the rest of the function after    *)
(* the call whose result it takes.                                         *)

Burn(fuse) == IF fuse > 1 THEN fuse - 1 ELSE 0

Avail(off) == IF Len(src) > off THEN Len(src) - off ELSE 0

\* self.obj.borrow_mut().read(into): up to maxRead bytes, 0 at end of input;
\* a failing read consumes nothing.
SourceRead(s, len) ==
    IF s.fuse = 1
    THEN [ok |-> FALSE, n |-> 0, data |-> << >>, s |-> [s EXCEPT !.fuse = 0]]
    ELSE [ok |-> TRUE, n |-> Min(Min(len, maxRead), Avail(s.off)),
          data |-> SrcSlice(s.off, Min(Min(len, maxRead), Avail(s.off))),
          s |-> [s EXCEPT !.off = @ + Min(Min(len, maxRead), Avail(s.off)),
                          !.fuse = Burn(@)]]

\* self.inner.obj.borrow_mut().seek(SeekFrom::Start(pos)); a failing seek
\* leaves the source where it was.
SourceSeek(s, target) ==
    IF s.fuse = 1
    THEN [ok |-> FALSE, s |-> [s EXCEPT !.fuse = 0, !.seeks = @ + 1]]
    ELSE [ok |-> TRUE,
          s |-> [s EXCEPT !.off = target, !.fuse = Burn(@), !.seeks = @ + 1]]

\* A seeded fault: pos advances by the length of the buffer, not by what the
\* source returned.
PosAfterAsked(p, len, i) == p + len

\* self.pos.set(self.pos.get() + i as u64)
PosAfterRead(p, len, i) == p + i

InnerReadDone(r, p, len) ==
    IF r.ok THEN [r EXCEPT !.s.pos = PosAfterRead(p, len, r.n)] ELSE r

\* impl Read for &ArchiveInner
InnerRead(s, len) == InnerReadDone(SourceRead(s, len), s.pos, len)

\* self.inner.pos.set(pos)
PosAfterSeek(p, target) == target

SeekDone(r, p, target) ==
    IF r.ok THEN [r EXCEPT !.s.pos = PosAfterSeek(p, target)] ELSE r

\* A seeded fault: a _seek that always seeks the source.
SeekAlways(s, target) == SeekDone(SourceSeek(s, target), s.pos, target)

\* A seeded fault: a _seek that never moves the source.
SeekNowhere(s, target) == [ok |-> TRUE, s |-> s]

\* Archive::_seek
Seek(s, target) ==
    IF s.pos = target THEN [ok |-> TRUE, s |-> s]
    ELSE SeekDone(SourceSeek(s, target), s.pos, target)

RECURSIVE ReadAllFrom(_, _, _)

\* A seeded fault: a read_all that takes one read for the whole block, and
\* leaves the rest of the buffer as it was (zeros).
ReadAllGotShort(r, buf, len) ==
    IF ~r.ok THEN [ok |-> FALSE, err |-> "IO", buf |-> buf, s |-> r.s]
    ELSE IF r.n = 0 THEN [ok |-> FALSE, err |-> "EofBlock", buf |-> buf, s |-> r.s]
    ELSE [ok |-> TRUE, err |-> "",
          buf |-> buf \o r.data \o Zeros(len - Len(buf) - r.n), s |-> r.s]

\* read_all, after r.read(&mut buf[read..])
ReadAllGot(r, buf, len) ==
    IF ~r.ok THEN [ok |-> FALSE, err |-> "IO", buf |-> buf, s |-> r.s]
    ELSE IF r.n = 0 THEN [ok |-> FALSE, err |-> "EofBlock", buf |-> buf, s |-> r.s]
    ELSE ReadAllFrom(r.s, buf \o r.data, len)

\* read_all: the loop, with buf the bytes read so far
ReadAllFrom(s, buf, len) ==
    IF Len(buf) < len THEN ReadAllGot(InnerRead(s, len - Len(buf)), buf, len)
    ELSE [ok |-> TRUE, err |-> "", buf |-> buf, s |-> s]

ReadAll(s, len) == ReadAllFrom(s, << >>, len)

RECURSIVE Skip(_, _)

\* A seeded fault: a read is taken to have filled the buffer it was given.
SkipGotAll(r, amt) ==
    IF ~r.ok THEN [ok |-> FALSE, err |-> "IO", s |-> r.s]
    ELSE IF r.n = 0 THEN [ok |-> FALSE, err |-> "EofSkip", s |-> r.s]
    ELSE Skip(r.s, amt - Min(amt, SkipBufLen))

\* Archive::_skip, after (&self.inner).read(&mut buf[..n as usize])
SkipGot(r, amt) ==
    IF ~r.ok THEN [ok |-> FALSE, err |-> "IO", s |-> r.s]
    ELSE IF r.n = 0 THEN [ok |-> FALSE, err |-> "EofSkip", s |-> r.s]
    ELSE Skip(r.s, amt - r.n)

\* A seeded fault: a _skip that discards nothing.
SkipNone(s, amt) == [ok |-> TRUE, err |-> "", s |-> s]

\* Archive::_skip
Skip(s, amt) ==
    IF amt > 0 THEN SkipGot(InnerRead(s, Min(amt, SkipBufLen)), amt)
    ELSE [ok |-> TRUE, err |-> "", s |-> s]

-----------------------------------------------------------------------------
(* Archive::_next_entry.                                                   *)

\* chunk[..148] summed + chunk[156..] summed + 32 * 8
ExpectedSum(chunk) ==
    SumRange(chunk, 0, CksumLo) + SumRange(chunk, CksumHi, RecordLen) + CksumBlank

\* A seeded fault: the size is rounded down.
RoundDown(size) == AndNot(size, RecordLen - 1)

\* (ret.size + 511) & !(512 - 1)
RoundUp(size) == AndNot(size + (RecordLen - 1), RecordLen - 1)

NoEntry == [path |-> << >>, size |-> 0, sum |-> 0, cksum |-> 0]

\* A seeded fault: the sum is not compared with the stored checksum.
DecodeUnchecked(chunk, sum, size, cksum) ==
    IF ~size.ok THEN [ok |-> FALSE, err |-> "Field", e |-> NoEntry]
    ELSE IF ~cksum.ok THEN [ok |-> FALSE, err |-> "Field", e |-> NoEntry]
    ELSE [ok |-> TRUE, err |-> "",
          e |-> [path |-> HeaderPath(chunk), size |-> size.val,
                 sum |-> sum, cksum |-> cksum.val]]

\* The checks on a non-zero record, in the code's order: header.size() is
\* decoded, then header.cksum(), then the sum is compared with it.
DecodeChecked(chunk, sum, size, cksum) ==
    IF ~size.ok THEN [ok |-> FALSE, err |-> "Field", e |-> NoEntry]
    ELSE IF ~cksum.ok THEN [ok |-> FALSE, err |-> "Field", e |-> NoEntry]
    ELSE IF sum # cksum.val THEN [ok |-> FALSE, err |-> "Cksum", e |-> NoEntry]
    ELSE [ok |-> TRUE, err |-> "",
          e |-> [path |-> HeaderPath(chunk), size |-> size.val,
                 sum |-> sum, cksum |-> cksum.val]]

DecodeHeader(chunk) ==
    DecodeChecked(chunk, ExpectedSum(chunk), HeaderSize(chunk), HeaderCksum(chunk))

\* A result of _next_entry is [kind, err, e, offset, s]: kind is "some"
\* (Ok(Some)), "none" (Ok(None)) or "err"; offset is *offset as the call
\* leaves it.

\* A seeded fault: *offset is not moved past the body.
NextEntryUnmoved(d, s, offset) ==
    IF ~d.ok
    THEN [kind |-> "err", err |-> d.err, e |-> NoEntry, offset |-> offset, s |-> s]
    ELSE [kind |-> "some", err |-> "", e |-> d.e, offset |-> offset, s |-> s]

\* A seeded fault: *offset is left at the header just decoded.
NextEntryStuck(d, s, offset) ==
    IF ~d.ok
    THEN [kind |-> "err", err |-> d.err, e |-> NoEntry, offset |-> offset, s |-> s]
    ELSE [kind |-> "some", err |-> "", e |-> d.e, offset |-> offset - RecordLen,
          s |-> s]

\* ... after the header is decoded: *offset += size
NextEntryDecoded(d, s, offset) ==
    IF ~d.ok
    THEN [kind |-> "err", err |-> d.err, e |-> NoEntry, offset |-> offset, s |-> s]
    ELSE [kind |-> "some", err |-> "", e |-> d.e,
          offset |-> offset + RoundUp(d.e.size), s |-> s]

\* ... after the second read_all, which follows a zero record
NextEntrySecond(r2, offset) ==
    IF ~r2.ok
    THEN [kind |-> "err", err |-> r2.err, e |-> NoEntry, offset |-> offset, s |-> r2.s]
    ELSE IF AllZero(r2.buf)
    THEN [kind |-> "none", err |-> "", e |-> NoEntry,
          offset |-> offset + RecordLen, s |-> r2.s]
    ELSE [kind |-> "err", err |-> "ZeroBlock", e |-> NoEntry,
          offset |-> offset + RecordLen, s |-> r2.s]

\* ... after the first read_all
NextEntryFirst(r1, offset) ==
    IF ~r1.ok
    THEN [kind |-> "err", err |-> r1.err, e |-> NoEntry, offset |-> offset, s |-> r1.s]
    ELSE IF AllZero(r1.buf)
    THEN NextEntrySecond(ReadAll(r1.s, RecordLen), offset + RecordLen)
    ELSE NextEntryDecoded(DecodeHeader(r1.buf), r1.s, offset + RecordLen)

NextEntry(s, offset) == NextEntryFirst(ReadAll(s, RecordLen), offset)

-----------------------------------------------------------------------------
(* The cursors.  A cursor step returns [c, s, item, ent, panic]: the       *)
(* cursor and the I/O state after the call, the item returned ("entry",    *)
(* "err" or "none"), and the EntryFields of an "entry".                    *)

NoItem == [kind |-> "none", err |-> "", path |-> << >>, size |-> 0]
ErrItem(e) == [kind |-> "err", err |-> e, path |-> << >>, size |-> 0]
EntryItem(e) == [kind |-> "entry", err |-> "", path |-> e.path, size |-> e.size]

NoRead == [res |-> "", at |-> -1, rel |-> 0, n |-> 0, from |-> 0, seeks |-> 0]

NoEnt == [mode |-> "", base |-> 0, size |-> 0, pos |-> 0, path |-> << >>,
          hdrAt |-> 0, cur |-> 0, sum |-> 0, cksum |-> 0, rd |-> NoRead]

\* EntryFields { pos: 0, size, header, read_at }.  base is the offset the
\* read_at closure captured.  Kept for the properties: hdrAt (where the
\* header's bytes came from in the source), cur (the cursor that yielded it)
\* and rd (the last read on the entry: its result, the source offset it was
\* issued at, the entry's pos before it, the bytes it returned, the Archive's
\* pos before it, the seek calls it issued on the source).
NewEnt(mode, base, e, hdrAt, cur) ==
    [mode |-> mode, base |-> base, size |-> e.size, pos |-> 0, path |-> e.path,
     hdrAt |-> hdrAt, cur |-> cur, sum |-> e.sum, cksum |-> e.cksum, rd |-> NoRead]

\* A seeded fault: a try_iter! that leaves done as it was.
TryIterKeeps(done) == done

\* try_iter!: $me.done = true when $e is Err
TryIterDone(done) == TRUE

\* EntriesFields::next: the match on _next_entry's result
EntriesParsed(c, ne, hdrAt, i) ==
    CASE ne.kind = "err" ->
           [c |-> [c EXCEPT !.offset = ne.offset, !.done = TryIterDone(@)],
            s |-> ne.s, item |-> ErrItem(ne.err), ent |-> NoEnt, panic |-> FALSE]
      [] ne.kind = "none" ->
           [c |-> [c EXCEPT !.offset = ne.offset, !.done = TRUE],
            s |-> ne.s, item |-> NoItem, ent |-> NoEnt, panic |-> FALSE]
      [] OTHER ->
           [c |-> [c EXCEPT !.offset = ne.offset], s |-> ne.s,
            item |-> EntryItem(ne.e),
            ent |-> NewEnt("ra", c.offset, ne.e, hdrAt, i), panic |-> FALSE]

\* EntriesFields::next, after self.archive._seek(self.offset)
EntriesSought(c, sk, i) ==
    IF ~sk.ok
    THEN [c |-> [c EXCEPT !.done = TryIterDone(@)], s |-> sk.s,
          item |-> ErrItem("IO"), ent |-> NoEnt, panic |-> FALSE]
    ELSE EntriesParsed(c, NextEntry(sk.s, c.offset), sk.s.off, i)

\* EntriesFields::next
EntriesNext(c, s, i) ==
    IF c.done THEN [c |-> c, s |-> s, item |-> NoItem, ent |-> NoEnt, panic |-> FALSE]
    ELSE EntriesSought(c, Seek(s, c.offset), i)

\* self.next - self.archive.inner.pos.get(), when it does not overflow
StreamDelta(next, p) == next - p

\* A seeded fault: nothing is left to discard.
NoDelta(next, p) == 0

\* The same on u64, without overflow checks: it wraps.
WrappedDelta(next, p) ==
    IF StreamDelta(next, p) < 0 THEN StreamDelta(next, p) + Modulus
    ELSE StreamDelta(next, p)

\* EntriesMutFields::next: the match on _next_entry's result
StreamParsed(c, ne, hdrAt) ==
    CASE ne.kind = "err" ->
           [c |-> [c EXCEPT !.next = ne.offset, !.done = TryIterDone(@)],
            s |-> ne.s, item |-> ErrItem(ne.err), ent |-> NoEnt, panic |-> FALSE]
      [] ne.kind = "none" ->
           [c |-> [c EXCEPT !.next = ne.offset, !.done = TRUE],
            s |-> ne.s, item |-> NoItem, ent |-> NoEnt, panic |-> FALSE]
      [] OTHER ->
           [c |-> [c EXCEPT !.next = ne.offset], s |-> ne.s,
            item |-> EntryItem(ne.e),
            ent |-> NewEnt("sm", 0, ne.e, hdrAt, 0), panic |-> FALSE]

\* EntriesMutFields::next, after self.archive._skip(delta)
StreamSkipped(c, sk) ==
    IF ~sk.ok
    THEN [c |-> [c EXCEPT !.done = TryIterDone(@)], s |-> sk.s,
          item |-> ErrItem(sk.err), ent |-> NoEnt, panic |-> FALSE]
    ELSE StreamParsed(c, NextEntry(sk.s, c.next), sk.s.off)

\* EntriesMutFields::next.  The subtraction is on u64: when pos is past next it
\* panics in a build with overflow checks (checked) and wraps in one without.
StreamNext(c, s, checked) ==
    IF c.done THEN [c |-> c, s |-> s, item |-> NoItem, ent |-> NoEnt, panic |-> FALSE]
    ELSE IF StreamDelta(c.next, s.pos) < 0 /\ checked
    THEN [c |-> c, s |-> s, item |-> NoItem, ent |-> NoEnt, panic |-> TRUE]
    ELSE StreamSkipped(c, Skip(s, WrappedDelta(c.next, s.pos)))

\* A seeded fault: the closure forgets the header record.
ReadAtNoHeader(offset, at) == offset + at

\* offset + 512 + at: where the random-access read_at closure seeks to
ReadAtTarget(offset, at) == offset + RecordLen + at

\* A read through read_at gives [ok, n, data, s, at]: at is the source offset
\* the read was issued at (-1: no read was issued).
ReadAtGot(r, at) == [ok |-> r.ok, n |-> r.n, data |-> r.data, s |-> r.s, at |-> at]

\* The random-access read_at closure, after archive._seek(offset + 512 + at)
ReadAtSought(sk, len) ==
    IF ~sk.ok THEN [ok |-> FALSE, n |-> 0, data |-> << >>, s |-> sk.s, at |-> -1]
    ELSE ReadAtGot(InnerRead(sk.s, len), sk.s.off)

\* The read_at closures: the random-access one seeks, then reads; the streaming
\* one reads where the source is.
ReadAt(e, s, at, len) ==
    IF e.mode = "ra" THEN ReadAtSought(Seek(s, ReadAtTarget(e.base, at)), len)
    ELSE ReadAtGot(InnerRead(s, len), s.off)

EntryReadGot(e, r) ==
    [ok |-> r.ok, n |-> r.n, data |-> r.data, s |-> r.s, at |-> r.at,
     e |-> [e EXCEPT !.pos = @ + r.n]]

\* impl Read for EntryFields (entry.rs): at most size - pos bytes, through
\* read_at(pos, ..); Ok(0) once pos = size.
EntryRead(e, s, len) ==
    IF e.size = e.pos
    THEN [ok |-> TRUE, n |-> 0, data |-> << >>, s |-> s, at |-> -1, e |-> e]
    ELSE EntryReadGot(e, ReadAt(e, s, e.pos, Min(e.size - e.pos, len)))

RECURSIVE CopyFrom(_, _, _)

CopyGot(r, acc) ==
    IF ~r.ok THEN [ok |-> FALSE, data |-> acc, s |-> r.s, e |-> r.e]
    ELSE IF r.n = 0 THEN [ok |-> TRUE, data |-> acc, s |-> r.s, e |-> r.e]
    ELSE CopyFrom(r.e, r.s, acc \o r.data)

\* A copy loop over the entry (io::copy, read_to_end): reads until a read
\* returns 0 bytes or fails.
CopyFrom(e, s, acc) == CopyGot(EntryRead(e, s, CopyBufLen), acc)

-----------------------------------------------------------------------------
(* Archive::_unpack: paths and the filesystem.  A filesystem path is a     *)
(* sequence of components; << >> is the current directory.                 *)

\* The pieces of a path between its '/' bytes.
RECURSIVE SplitPath(_, _)
SplitPath(bytes, cur) ==
    IF bytes = << >> THEN << cur >>
    ELSE IF Head(bytes) = SLASH THEN << cur >> \o SplitPath(Tail(bytes), << >>)
    ELSE SplitPath(Tail(bytes), Append(cur, Head(bytes)))

\* One piece as components: none for an empty piece or an inner ".".
ComponentOf(p, first) ==
    IF p = << >> THEN << >>
    ELSE IF p = << DOT >>
    THEN (IF first THEN << [kind |-> "CurDir", name |-> p] >> ELSE << >>)
    ELSE IF p = << DOT, DOT >> THEN << [kind |-> "ParentDir", name |-> p] >>
    ELSE << [kind |-> "Normal", name |-> p] >>

RECURSIVE ComponentsFrom(_, _, _)
ComponentsFrom(parts, k, first) ==
    IF k > Len(parts) THEN << >>
    ELSE ComponentOf(parts[k], first)
         \o ComponentsFrom(parts, k + 1, first /\ parts[k] = << >>)

HasRoot(path) == path # << >> /\ path[1] = SLASH

\* path.components(): a leading '/' is RootDir, empty pieces and inner "."
\* pieces are dropped, ".." is ParentDir, anything else is Normal.
Components(path) ==
    (IF HasRoot(path) THEN << [kind |-> "RootDir", name |-> << >>] >> ELSE << >>)
    \o ComponentsFrom(SplitPath(path, << >>), 1, ~HasRoot(path))

\* The destination root handed to unpack: "dst".
Dst == << << 100, 115, 116 >> >>

\* A seeded fault: a leading "." is taken for a name.
IgnoresOnlyRoot(part) == part.kind \in {"Prefix", "RootDir"}

\* Component::Prefix(..) | Component::RootDir | Component::CurDir => continue
IgnoresPart(part) == part.kind \in {"Prefix", "RootDir", "CurDir"}

\* A seeded fault: no component makes unpack skip its entry.
SkipsNothing(part) == FALSE

\* Component::ParentDir => continue 'outer
SkipsEntry(part) == part.kind = "ParentDir"

\* The loop over path.components(): [skip, dst].
RECURSIVE PushParts(_, _, _)
PushParts(comps, k, fileDst) ==
    IF k > Len(comps) THEN [skip |-> FALSE, dst |-> fileDst]
    ELSE IF IgnoresPart(comps[k]) THEN PushParts(comps, k + 1, fileDst)
    ELSE IF SkipsEntry(comps[k]) THEN [skip |-> TRUE, dst |-> fileDst]
    ELSE PushParts(comps, k + 1, Append(fileDst, comps[k].name))

Parent(p) == SubSeq(p, 1, Len(p) - 1)

FilePaths(fl) == { f.path : f \in fl }

FileAt(fl, p) == (CHOOSE f \in fl : f.path = p).data

RECURSIVE CreateDirAll(_, _, _, _)

\* fs::create_dir_all, after the parent is there: create_dir(p) fails where a
\* file is in the way (or when the filesystem refuses: fault).
CreateDirIn(above, fl, p, fault) ==
    IF ~above.ok THEN above
    ELSE IF p \in FilePaths(fl) \/ fault THEN [ok |-> FALSE, dirs |-> above.dirs]
    ELSE [ok |-> TRUE, dirs |-> above.dirs \cup {p}]

\* fs::create_dir_all(p): an existing directory is left alone; otherwise the
\* parent is created first, then p.
CreateDirAll(ds, fl, p, fault) ==
    IF p \in ds THEN [ok |-> TRUE, dirs |-> ds]
    ELSE CreateDirIn(CreateDirAll(ds, fl, Parent(p), fault), fl, p, fault)

WriteFile(fl, p, data) ==
    { f \in fl : f.path # p } \cup { [path |-> p, data |-> data] }

EntryUnpackCopied(c, fl, dst) ==
    [ok |-> c.ok, s |-> c.s, files |-> WriteFile(fl, dst, c.data)]

\* Entry::unpack (entry.rs): create the file at dst, then copy the body into
\* it.  Creating fails on a directory or when the filesystem refuses; a copy
\* that fails leaves what was copied.
EntryUnpack(e, s, ds, fl, dst, fault) ==
    IF dst \in ds \/ fault THEN [ok |-> FALSE, s |-> s, files |-> fl]
    ELSE EntryUnpackCopied(CopyFrom(e, s, << >>), fl, dst)

\* A seeded fault: a streaming cursor may start anywhere.
AtAnywhere(p) == TRUE

\* self.inner.pos.get() != 0 => Err (Archive::_entries_mut)
AtStart(p) == p = 0

-----------------------------------------------------------------------------
(* One iteration of the for loop of Archive::_unpack.  It gives [c, s,     *)
(* dirs, files, item, what, dst, ret]: ret is "" while the loop goes on,   *)
(* "ok" when unpack returns Ok(()), and the failure it returns otherwise.  *)

\* A seeded fault: a failure of an iteration is swallowed and the loop goes on.
UnpackGoesOn(r, s, ds, fl, what, dst, ret) ==
    [c |-> r.c, s |-> s, dirs |-> ds, files |-> fl, item |-> r.item,
     what |-> what, dst |-> dst, ret |-> IF ret = "ok" THEN "ok" ELSE ""]

UnpackResult(r, s, ds, fl, what, dst, ret) ==
    [c |-> r.c, s |-> s, dirs |-> ds, files |-> fl, item |-> r.item,
     what |-> what, dst |-> dst, ret |-> ret]

\* ... after file.into_entry().unpack(&file_dst)
UnpackWritten(r, w, ds, dst) ==
    UnpackResult(r, w.s, ds, w.files, IF w.ok THEN "Written" ELSE "Write", dst,
                 IF w.ok THEN "" ELSE "Write")

\* ... after fs::create_dir_all(&parent)
UnpackMade(r, mk, fl, dst, fsFault) ==
    IF ~mk.ok THEN UnpackResult(r, r.s, mk.dirs, fl, "Mkdir", dst, "Mkdir")
    ELSE UnpackWritten(r, EntryUnpack(r.ent, r.s, mk.dirs, fl, dst, fsFault = "write"),
                       mk.dirs, dst)

\* ... after the loop over the path's components
UnpackPath(r, b, ds, fl, fsFault) ==
    IF b.skip THEN UnpackResult(r, r.s, ds, fl, "SkipParent", << >>, "")
    ELSE IF b.dst = Dst THEN UnpackResult(r, r.s, ds, fl, "SkipEmpty", << >>, "")
    ELSE UnpackMade(r, CreateDirAll(ds, fl, Parent(b.dst), fsFault = "mkdir"),
                    fl, b.dst, fsFault)

\* ... after the cursor's next()
UnpackEntry(r, ds, fl, fsFault) ==
    CASE r.item.kind = "none" -> UnpackResult(r, r.s, ds, fl, "End", << >>, "ok")
      [] r.item.kind = "err" -> UnpackResult(r, r.s, ds, fl, "Iterate", << >>, "Iterate")
      [] OTHER -> UnpackPath(r, PushParts(Components(r.ent.path), 1, Dst), ds, fl,
                             fsFault)

\* The for loop's call of next(), then the loop's body.  Within unpack pos never
\* passes the cursor's next (a body is read through its entry, which stops at
\* size), so the subtraction in next() does not underflow here.
UnpackOne(c, s, ds, fl, fsFault) ==
    UnpackEntry(StreamNext(c, s, TRUE), ds, fl, fsFault)

-----------------------------------------------------------------------------
(* The state machine.  An action that ends in To takes the result of the   *)
(* handler's call and assigns it to the state.                             *)

\* The consumer's buffer lengths for one body read.
ReadLens == {1, 511}
\* The sources: one returns at most 100 bytes per read, one whatever is asked.
ReadCaps == {100, 65536}
FsFaults == {"none", "mkdir", "write"}

\* EntriesFields { archive, archive_read, done: false, offset: 0 }, what it has
\* yielded (out), and whether next() was called on it after it was done
\* (polled).
\* A seeded fault: a new cursor starts where the archive's position is.
CursorAtPos == [offset |-> pos, done |-> FALSE, out |-> << >>, polled |-> FALSE]

NewCursor == [offset |-> 0, done |-> FALSE, out |-> << >>, polled |-> FALSE]
\* EntriesMutFields { archive, done: false, next: 0 }, out and polled as above,
\* and whether the consumer has so far read bodies in order and to their end.
NewStream ==
    [next |-> 0, done |-> FALSE, out |-> << >>, polled |-> FALSE, inOrder |-> TRUE,
     full |-> TRUE]

\* The injected source failure was hit: the fuse burnt down to a failing call.
FuseHit(fuse, s) == fuse > 0 /\ s.fuse = 0

S0(fuse) == [pos |-> pos, off |-> srcOff, fuse |-> fuse, seeks |-> 0]

Yield(out, item) == IF item.kind = "none" THEN out ELSE Append(out, item)

\* No cursor step is in progress.  A step in progress is [pc, cur, amt, buf,
\* zero, offset, hdrAt, d]: where it is ("skip": in the loop of _skip, "read":
\* in the loop of read_all, "decoded": past the header's decode), the cursor
\* stepped (0: the streaming one), what _skip has left to discard, read_all's
\* buffer so far, whether this is the read after a zero record, *offset, where
\* the header's bytes start in the source, and the decoded header.
NoRun ==
    [pc |-> "idle", cur |-> 0, amt |-> 0, buf |-> << >>, zero |-> FALSE,
     offset |-> 0, hdrAt |-> 0, d |-> [ok |-> FALSE, err |-> "", e |-> NoEntry]]

\* Archive::new over a source at offset 0 that holds archive a.
InitWith(a, cap) ==
    /\ ar = a
    /\ src = SourceBytes(a)
    /\ maxRead = cap
    /\ srcOff = 0
    /\ pos = 0
    /\ ra = << >>
    /\ sm = << >>
    /\ ents = << >>
    /\ up = [pc |-> "idle", ret |-> "", log |-> << >>]
    /\ files = { }
    /\ dirs = { << >> }
    /\ ctor = ""
    /\ nreads = 0
    /\ nsess = 0
    /\ halted = FALSE
    /\ run = NoRun

\* Well-formed archives.
Archives ==
    { [ents |-> e, tail |-> "zz", flip |-> NoFlip] : e \in Windows(0, MaxEntries) }

Init == \E a \in Archives, cap \in ReadCaps : InitWith(a, cap)

Idle == ~halted /\ up.pc = "idle" /\ run.pc = "idle"

EntriesCallTo(sk) ==
    /\ pos' = sk.s.pos
    /\ srcOff' = sk.s.off
    /\ ra' = IF sk.ok THEN Append(ra, NewCursor) ELSE ra
    /\ ctor' = IF sk.ok THEN "ok" ELSE "IO"

\* Archive::entries: try!(self._seek(0)), while fewer than n cursors are alive
EntriesCallUpTo(fuse, n) ==
    /\ Idle /\ sm = << >> /\ nsess < MaxSessions /\ Len(ra) < n
    /\ EntriesCallTo(Seek(S0(fuse), 0))
    /\ nsess' = nsess + 1
    /\ UNCHANGED << ar, src, maxRead, run, sm, ents, up, files, dirs, nreads, halted >>

EntriesCall(fuse) == EntriesCallUpTo(fuse, MaxCursors)

\* Archive::entries_mut
EntriesMutCall ==
    /\ Idle /\ ra = << >> /\ sm = << >> /\ ents = << >> /\ nsess < MaxSessions
    /\ sm' = IF AtStart(pos) THEN << NewStream >> ELSE sm
    /\ ctor' = IF AtStart(pos) THEN "ok" ELSE "NotAtStart"
    /\ nsess' = nsess + 1
    /\ UNCHANGED << ar, src, maxRead, run, srcOff, pos, ra, ents, up, files, dirs, nreads,
                    halted >>

EntriesStepTo(i, r) ==
    /\ pos' = r.s.pos
    /\ srcOff' = r.s.off
    /\ ra' = [ra EXCEPT ![i] = [r.c EXCEPT !.out = Yield(@, r.item),
                                          !.polled = @ \/ ra[i].done]]
    /\ ents' = IF r.item.kind = "entry" THEN Append(ents, r.ent) ELSE ents

\* Entries::next on the i-th random-access cursor
EntriesStep(i, fuse) ==
    /\ Idle /\ i \in 1..Len(ra)
    /\ EntriesStepTo(i, EntriesNext(ra[i], S0(fuse), i))
    /\ UNCHANGED << ar, src, maxRead, run, sm, up, files, dirs, ctor, nreads, nsess,
                    halted >>

\* The last entry yielded has been read to its end (or none was yielded).
LastRead == ents = << >> \/ ents[Len(ents)].pos = ents[Len(ents)].size

StreamStepTo(r) ==
    IF r.panic
    THEN /\ halted' = TRUE
         /\ UNCHANGED << pos, srcOff, sm, ents >>
    ELSE /\ pos' = r.s.pos
         /\ srcOff' = r.s.off
         /\ sm' = << [r.c EXCEPT !.out = Yield(@, r.item),
                                 !.polled = @ \/ sm[1].done,
                                 !.full = @ /\ (sm[1].done \/ LastRead)] >>
         /\ ents' = IF r.item.kind = "entry" THEN Append(ents, r.ent) ELSE ents
         /\ UNCHANGED halted

\* EntriesMut::next
StreamStep(fuse, checked) ==
    /\ Idle /\ sm # << >>
    /\ StreamStepTo(StreamNext(sm[1], S0(fuse), checked))
    /\ UNCHANGED << ar, src, maxRead, run, ra, up, files, dirs, ctor, nreads, nsess >>

ReadTo(j, r, at, n) ==
    /\ pos' = r.s.pos
    /\ srcOff' = r.s.off
    /\ ents' = [ents EXCEPT ![j] =
                  [r.e EXCEPT !.rd = [res |-> IF r.ok THEN "ok" ELSE "IO", at |-> at,
                                      rel |-> ents[j].pos, n |-> n, from |-> pos,
                                      seeks |-> r.s.seeks]]]
    /\ sm' = IF sm # << >> /\ j # Len(ents)
             THEN << [sm[1] EXCEPT !.inOrder = FALSE] >> ELSE sm
    /\ nreads' = nreads + 1

ReadBodyTo(j, r) == ReadTo(j, r, r.at, r.n)

\* EntryFields::read on the j-th live entry, into a buffer of len bytes
ReadBody(j, len, fuse) ==
    /\ Idle /\ j \in 1..Len(ents) /\ nreads < MaxBodyReads
    /\ ReadBodyTo(j, EntryRead(ents[j], S0(fuse), len))
    /\ UNCHANGED << ar, src, maxRead, run, ra, up, files, dirs, ctor, nsess, halted >>

ReadBodyAllTo(j, r) == ReadTo(j, r, -1, Len(r.data))

\* The consumer reads the j-th live entry to its end (read_to_end)
ReadBodyAll(j, fuse) ==
    /\ Idle /\ j \in 1..Len(ents) /\ nreads < MaxBodyReads
    /\ ReadBodyAllTo(j, CopyFrom(ents[j], S0(fuse), << >>))
    /\ UNCHANGED << ar, src, maxRead, run, ra, up, files, dirs, ctor, nsess, halted >>

\* The consumer drops its cursors and entries
Drop ==
    /\ Idle /\ nsess < MaxSessions
    /\ ra # << >> \/ sm # << >> \/ ents # << >>
    /\ ra' = << >>
    /\ sm' = << >>
    /\ ents' = << >>
    /\ UNCHANGED << ar, src, maxRead, run, srcOff, pos, up, files, dirs, ctor, nreads,
                    nsess, halted >>

\* Archive::unpack, up to the first iteration of its loop
UnpackCall ==
    /\ Idle /\ ra = << >> /\ sm = << >> /\ ents = << >> /\ nsess < MaxSessions
    /\ sm' = IF AtStart(pos) THEN << NewStream >> ELSE sm
    /\ up' = IF AtStart(pos) THEN [pc |-> "loop", ret |-> "", log |-> << >>]
             ELSE [pc |-> "idle", ret |-> "NotAtStart", log |-> << >>]
    /\ ctor' = IF AtStart(pos) THEN "ok" ELSE "NotAtStart"
    /\ nsess' = nsess + 1
    /\ UNCHANGED << ar, src, maxRead, run, srcOff, pos, ra, ents, files, dirs, nreads,
                    halted >>

UnpackIterTo(r, fuse, fsFault) ==
    /\ pos' = r.s.pos
    /\ srcOff' = r.s.off
    /\ dirs' = r.dirs
    /\ files' = r.files
    /\ sm' = IF r.ret = "" THEN << [r.c EXCEPT !.out = Yield(@, r.item)] >> ELSE << >>
    /\ up' = [pc |-> IF r.ret = "" THEN "loop" ELSE "idle", ret |-> r.ret,
              log |-> IF r.what = "End" THEN up.log
                      ELSE Append(up.log,
                                  [path |-> r.item.path, size |-> r.item.size,
                                   what |-> r.what, dst |-> r.dst, err |-> r.item.err,
                                   fault |-> \/ FuseHit(fuse, r.s)
                                             \/ r.what = "Mkdir" /\ fsFault = "mkdir"
                                             \/ r.what = "Write" /\ fsFault = "write"])]

\* One iteration of the loop of Archive::_unpack; the last one returns
UnpackIter(fuse, fsFault) ==
    /\ ~halted /\ up.pc = "loop"
    /\ UnpackIterTo(UnpackOne(sm[1], S0(fuse), dirs, files, fsFault), fuse, fsFault)
    /\ UNCHANGED << ar, src, maxRead, run, ra, ents, ctor, nreads, nsess, halted >>

Next ==
    \/ \E fuse \in 0..MaxFuse : EntriesCall(fuse)
    \/ EntriesMutCall
    \/ \E i \in 1..MaxCursors, fuse \in 0..MaxFuse : EntriesStep(i, fuse)
    \/ \E fuse \in 0..MaxFuse, checked \in BOOLEAN : StreamStep(fuse, checked)
    \/ \E j \in 1..(MaxEntries * MaxCursors), len \in ReadLens, fuse \in 0..MaxFuse :
          ReadBody(j, len, fuse)
    \/ \E j \in 1..(MaxEntries * MaxCursors), fuse \in 0..MaxFuse : ReadBodyAll(j, fuse)
    \/ Drop
    \/ UnpackCall
    \/ \E fuse \in 0..MaxFuse, fsFault \in FsFaults : UnpackIter(fuse, fsFault)

Spec == Init /\ [][Next]_vars

\* Archives that end badly (and, to compare, well): at most MaxEntries - 1
\* entries, then each tail.
BadTails ==
    { [ents |-> e, tail |-> t, flip |-> NoFlip] :
          e \in Windows(0, MaxEntries - 1), t \in Tails }

InitTail == \E a \in BadTails, cap \in ReadCaps : InitWith(a, cap)

SpecTail == InitTail /\ [][Next]_vars

\* The bytes a flipped header byte is replaced by (NUL, '1', 0xFF), and the
\* header offsets flipped: the first byte of the name, the first byte of the
\* size field, the size field's terminator, and the last byte of the record.
FlipVals == {0, 49, 255}
FlipAts == {0, 124, 135, 511}

\* Well-formed archives with one byte of their last header flipped (the byte
\* differs from what it was).
Flipped ==
    { a \in { [ents |-> e, tail |-> "zz",
               flip |-> [idx |-> Len(e), at |-> b, val |-> v]] :
                  e \in Windows(1, MaxEntries), b \in FlipAts, v \in FlipVals } :
          HeaderOf(a.ents[a.flip.idx])[a.flip.at + 1] # a.flip.val }

InitFlip == \E a \in Flipped : InitWith(a, 65536)

SpecFlip == InitFlip /\ [][Next]_vars

\* Random-access cursors alive at once when several share the archive.
MultiCursors == MaxCursors + 1

\* The consumer holds up to MultiCursors random-access cursors on the archive
\* (entries takes &self, so they can coexist) and steps them and reads their
\* entries in any order; a cursor may be created at any time.
NextMulti ==
    \/ \E fuse \in 0..MaxFuse : EntriesCallUpTo(fuse, MultiCursors)
    \/ \E i \in 1..MultiCursors, fuse \in 0..MaxFuse : EntriesStep(i, fuse)
    \/ \E j \in 1..(MaxEntries * MultiCursors), fuse \in 0..MaxFuse :
          ReadBodyAll(j, fuse)
    \/ Drop

\* Well-formed archives behind a source that returns whole reads.
InitMulti == \E a \in Archives : InitWith(a, 65536)

SpecMulti == InitMulti /\ [][NextMulti]_vars

-----------------------------------------------------------------------------
(* The cursors' next(), stepped through its loops: one action for each     *)
(* pass of the while loop of _skip and of read_all, so that what a pass    *)
(* consumes, and that the passes come to an end, can be checked.           *)

\* What the cursor's next() returns for ne, the result of _next_entry.
LiveParsed(ne) ==
    IF run.cur = 0 THEN StreamParsed(sm[1], ne, run.hdrAt)
    ELSE EntriesParsed(ra[run.cur], ne, run.hdrAt, run.cur)

\* The step in progress returns r.
LiveReturnTo(r) ==
    /\ IF run.cur = 0
       THEN StreamStepTo(r) /\ UNCHANGED ra
       ELSE EntriesStepTo(run.cur, r) /\ UNCHANGED << sm, halted >>
    /\ run' = NoRun

LiveEntriesSoughtTo(i, sk, fuse) ==
    IF ra[i].done \/ ~sk.ok
    THEN EntriesStepTo(i, EntriesNext(ra[i], S0(fuse), i)) /\ UNCHANGED run
    ELSE /\ pos' = sk.s.pos
         /\ srcOff' = sk.s.off
         /\ run' = [NoRun EXCEPT !.pc = "read", !.cur = i, !.offset = ra[i].offset,
                                 !.hdrAt = sk.s.off]
         /\ UNCHANGED << ra, ents >>

\* EntriesFields::next, up to the call of _next_entry: the done check and the
\* seek
LiveEntriesBegin(i, fuse) ==
    /\ Idle /\ i \in 1..Len(ra)
    /\ LiveEntriesSoughtTo(i, Seek(S0(fuse), ra[i].offset), fuse)
    /\ UNCHANGED << ar, src, maxRead, sm, up, files, dirs, ctor, nreads, nsess,
                    halted >>

\* EntriesMutFields::next, up to the call of _skip: the done check and the
\* subtraction
LiveStreamBegin(checked) ==
    /\ Idle /\ sm # << >>
    /\ IF sm[1].done \/ (StreamDelta(sm[1].next, pos) < 0 /\ checked)
       THEN StreamStepTo(StreamNext(sm[1], S0(0), checked)) /\ UNCHANGED run
       ELSE /\ run' = [NoRun EXCEPT !.pc = "skip", !.offset = sm[1].next,
                                    !.amt = WrappedDelta(sm[1].next, pos)]
            /\ UNCHANGED << pos, srcOff, sm, ents, halted >>
    /\ UNCHANGED << ar, src, maxRead, ra, up, files, dirs, ctor, nreads, nsess >>

\* _skip, after one read of its loop: amt -= n, or the failure
LiveSkipGotTo(r) ==
    IF r.ok /\ r.n > 0
    THEN /\ pos' = r.s.pos
         /\ srcOff' = r.s.off
         /\ run' = [run EXCEPT !.amt = @ - r.n]
         /\ UNCHANGED << sm, ents, halted >>
    ELSE /\ StreamStepTo(StreamSkipped(sm[1], SkipGot(r, run.amt)))
         /\ run' = NoRun

\* One pass of the while loop of Archive::_skip; when amt is 0 the loop is left
\* and _next_entry begins
LiveSkip(fuse) ==
    /\ ~halted /\ run.pc = "skip"
    /\ IF run.amt > 0
       THEN LiveSkipGotTo(InnerRead(S0(fuse), Min(run.amt, SkipBufLen)))
       ELSE /\ run' = [run EXCEPT !.pc = "read", !.hdrAt = srcOff]
            /\ UNCHANGED << pos, srcOff, sm, ents, halted >>
    /\ UNCHANGED << ar, src, maxRead, ra, up, files, dirs, ctor, nreads, nsess >>

\* What _next_entry returns when the read_all in progress returns r2.
LiveBlockRead(r2) ==
    IF run.zero THEN NextEntrySecond(r2, run.offset)
    ELSE NextEntryFirst(r2, run.offset)

\* read_all, after one read of its loop: read += n, or the failure
LiveReadGotTo(r) ==
    IF r.ok /\ r.n > 0
    THEN /\ pos' = r.s.pos
         /\ srcOff' = r.s.off
         /\ run' = [run EXCEPT !.buf = @ \o r.data]
         /\ UNCHANGED << ra, sm, ents, halted >>
    ELSE LiveReturnTo(LiveParsed(LiveBlockRead(ReadAllGot(r, run.buf, RecordLen))))

\* One pass of the while loop of read_all
LiveRead(fuse) ==
    /\ ~halted /\ run.pc = "read" /\ Len(run.buf) < RecordLen
    /\ LiveReadGotTo(InnerRead(S0(fuse), RecordLen - Len(run.buf)))
    /\ UNCHANGED << ar, src, maxRead, up, files, dirs, ctor, nreads, nsess >>

\* _next_entry, after a read_all that filled the record: a second zero record
\* or a record after a zero record ends the call; a first zero record leads to
\* the second read; any other record is decoded.
LiveBlock ==
    /\ ~halted /\ run.pc = "read" /\ Len(run.buf) = RecordLen
    /\ IF run.zero
       THEN LiveReturnTo(LiveParsed(NextEntrySecond(
                [ok |-> TRUE, err |-> "", buf |-> run.buf, s |-> S0(0)], run.offset)))
       ELSE /\ run' = IF AllZero(run.buf)
                      THEN [run EXCEPT !.zero = TRUE, !.buf = << >>,
                                       !.offset = @ + RecordLen]
                      ELSE [run EXCEPT !.pc = "decoded", !.d = DecodeHeader(run.buf),
                                       !.offset = @ + RecordLen]
            /\ UNCHANGED << pos, srcOff, ra, sm, ents, halted >>
    /\ UNCHANGED << ar, src, maxRead, up, files, dirs, ctor, nreads, nsess >>

\* _next_entry, after the header's decode, and the cursor's match on its result
LiveDecoded ==
    /\ ~halted /\ run.pc = "decoded"
    /\ LiveReturnTo(LiveParsed(NextEntryDecoded(run.d, S0(0), run.offset)))
    /\ UNCHANGED << ar, src, maxRead, up, files, dirs, ctor, nreads, nsess >>

\* The consumer steps the cursor it holds, and a step that has begun runs on.
LiveStep ==
    \/ \E i \in 1..MaxCursors, fuse \in 0..MaxFuse : LiveEntriesBegin(i, fuse)
    \/ \E checked \in BOOLEAN : LiveStreamBegin(checked)
    \/ \E fuse \in 0..MaxFuse : LiveSkip(fuse)
    \/ \E fuse \in 0..MaxFuse : LiveRead(fuse)
    \/ LiveBlock
    \/ LiveDecoded

NextLive ==
    \/ \E fuse \in 0..MaxFuse : EntriesCall(fuse)
    \/ EntriesMutCall
    \/ \E i \in 1..MaxCursors, fuse \in 0..MaxFuse : LiveEntriesBegin(i, fuse)
    \/ \E checked \in BOOLEAN : LiveStreamBegin(checked)
    \/ \E fuse \in 0..MaxFuse : LiveSkip(fuse)
    \/ \E fuse \in 0..MaxFuse : LiveRead(fuse)
    \/ LiveBlock
    \/ LiveDecoded
    \/ \E j \in 1..MaxEntries, fuse \in 0..MaxFuse : ReadBodyAll(j, fuse)
    \/ Drop

\* Any finite source: the well-formed archives and the ones that end badly.
InitLive == \E a \in Archives \cup BadTails, cap \in ReadCaps : InitWith(a, cap)

\* The consumer keeps stepping the cursor it holds (the claim is about a
\* cursor that is stepped again and again), and the code of a step runs on.
SpecLive == InitLive /\ [][NextLive]_vars /\ WF_vars(LiveStep)

-----------------------------------------------------------------------------
(* Properties.                                                             *)

\* What a complete traversal of the archive's entries yields.
Expected == [k \in 1..Len(ar.ents) |-> EntryItem(ar.ents[k])]

IsPrefix(a, b) == Len(a) <= Len(b) /\ SubSeq(b, 1, Len(a)) = a

\* No source failure was reported to the cursor.
NoIOErr(out) == \A k \in 1..Len(out) : out[k].err # "IO"

\* What a cursor has yielded is right so far, and complete once it is done.
YieldsExpected(c) ==
    NoIOErr(c.out) => IF c.done THEN c.out = Expected ELSE IsPrefix(c.out, Expected)

\* The streaming cursor's consumer has read every body to its end before the
\* next step.
FullyConsumed == sm # << >> /\ sm[1].inOrder /\ sm[1].full

\* C1: on a well-formed archive of N entries the random-access cursor and the
\* streaming cursor whose consumer reads every body fully before the next step
\* yield the same (path, size) pairs in the same order: the archive's N entries,
\* then the end of the iteration, and no error.
C1_SameSequence ==
    WellFormed(ar) =>
        /\ \A i \in 1..Len(ra) : YieldsExpected(ra[i])
        /\ FullyConsumed => YieldsExpected(sm[1])

\* A streaming traversal of MaxEntries entries is done; every body was read to
\* its end in its turn.
C1_Witness ==
    /\ WellFormed(ar) /\ Len(ar.ents) = MaxEntries
    /\ FullyConsumed /\ sm[1].done /\ sm[1].out = Expected
    /\ Len(ents) = MaxEntries
    /\ \A j \in 1..Len(ents) : ents[j].size > 0 /\ ents[j].pos = ents[j].size

\* The live cursors of a state.
Cursors(r, s) == { r[i] : i \in 1..Len(r) } \cup { s[i] : i \in 1..Len(s) }

\* An error is the last item of what a cursor yielded, and the cursor is done.
ErrorEnds(c) ==
    /\ \A k \in 1..Len(c.out) : c.out[k].kind = "err" => k = Len(c.out)
    /\ c.out # << >> /\ c.out[Len(c.out)].kind = "err" => c.done

\* From c to d in one step: a done cursor stays done and yields nothing, and a
\* step that yields nothing (the end sentinel) leaves the cursor done.
StaysDone(c, d) ==
    /\ c.done => d.done /\ d.out = c.out
    /\ ~c.done /\ d # c /\ d.out = c.out /\ d.polled = c.polled
       /\ d.inOrder = c.inOrder => d.done

\* A cursor with the fields of both kinds, to compare them.
AsCursor(c, k) ==
    [done |-> c.done, out |-> c.out, polled |-> c.polled,
     at |-> IF k = "ra" THEN c.offset ELSE c.next,
     inOrder |-> IF k = "ra" THEN TRUE ELSE c.inOrder]

C2_Step ==
    /\ \A i \in 1..Len(ra) :
           i <= Len(ra') => StaysDone(AsCursor(ra[i], "ra"), AsCursor(ra'[i], "ra"))
    /\ sm # << >> /\ sm' # << >> =>
           StaysDone(AsCursor(sm[1], "sm"), AsCursor(sm'[1], "sm"))

C2_State == \A c \in Cursors(ra, sm) : ErrorEnds(c)

\* C2: for both cursors, once a step has reported an error or reached the end
\* sentinel the cursor is done, and every later step yields nothing; so what a
\* cursor yields holds at most one error, and it is the last item.
C2_NeverYieldsAgain == []C2_State /\ [][C2_Step]_vars

\* A random-access cursor yielded an entry, then reported that the archive ends
\* badly, and was stepped again.
C2_Witness ==
    /\ ra # << >> /\ ra[1].done /\ ra[1].polled
    /\ Len(ra[1].out) = 2 /\ ra[1].out[1].kind = "entry"
    /\ ra[1].out[2].kind = "err" /\ ra[1].out[2].err # "IO"

\* The path has a ".." between two '/' (or the path's ends).
HasParentDir(path) ==
    \E i \in 1..Len(path) :
        /\ i < Len(path) /\ path[i] = DOT /\ path[i + 1] = DOT
        /\ i = 1 \/ path[i - 1] = SLASH
        /\ i + 1 = Len(path) \/ path[i + 2] = SLASH

\* A filesystem path at or under the destination root: the root, then
\* components that are not "..".
UnderRoot(p) ==
    /\ IsPrefix(Dst, p)
    /\ \A k \in 1..Len(p) : p[k] # Str_dotdot

\* The last iteration of unpack's loop.
LastIter(log) == log[Len(log)]

\* An iteration over an entry whose path has a ".." skips it and leaves the
\* filesystem as it was.
C3_Step ==
    (/\ up'.log # up.log /\ up'.log # << >>
     /\ LastIter(up'.log).what # "Iterate" /\ HasParentDir(LastIter(up'.log).path))
        => (LastIter(up'.log).what = "SkipParent" /\ files' = files /\ dirs' = dirs)

\* Every file and every directory is at or under the destination root; the
\* current directory (<< >>) was there before.
C3_State ==
    /\ \A p \in FilePaths(files) : UnderRoot(p)
    /\ \A p \in dirs : p = << >> \/ UnderRoot(p)

\* C3: unpack skips every entry whose path has a ".." component, leading or
\* interior, with no effect on the filesystem (no file written, no directory
\* created), and every path it writes to or creates is under the destination
\* root.
C3_StaysUnderRoot == []C3_State /\ [][C3_Step]_vars

\* An unpack returned success after it skipped "d/../f" without creating "d"
\* and then wrote the next entry under the root.
C3_Witness ==
    /\ up.ret = "ok" /\ Len(up.log) = 2
    /\ up.log[1].path = PathDUpF /\ up.log[1].what = "SkipParent"
    /\ up.log[2].what = "Written" /\ up.log[2].dst \in FilePaths(files)
    /\ dirs = { << >>, Dst }

\* C4: the Archive's recorded position equals the source's actual offset in
\* every reachable state, whatever cursor steps, body reads, skips and seeks
\* led to it (the source starts at offset 0): a read advances it by the bytes
\* the source returned, a successful seek sets it to the target, nothing else
\* changes it.
C4_PosIsSourceOffset == pos = srcOff

\* After a random-access cursor yielded two entries, a body read on the first
\* one sought back and the source returned fewer bytes than asked for.
C4_Witness ==
    /\ pos = srcOff /\ Len(ents) = 2 /\ ents[1].mode = "ra"
    /\ ents[1].rd.res = "ok" /\ ents[1].rd.n = maxRead
    /\ pos = ents[1].rd.at + ents[1].rd.n /\ pos < ents[2].hdrAt

\* The cursors whose consumer keeps to the protocol: the random-access ones,
\* and the streaming one while bodies are read in order.
Traversals ==
    { AsCursor(ra[i], "ra") : i \in 1..Len(ra) }
    \cup { AsCursor(sm[i], "sm") : i \in { j \in 1..Len(sm) : sm[j].inOrder } }

\* What a cursor reports for the header that has a flipped byte.
AtFlipped(c) == c.out[ar.flip.idx]

\* C5: with one byte of a header flipped outside the checksum field (bytes of
\* the size field included), the decode of that entry fails with the checksum
\* mismatch, and no entry is yielded for that header.
C5_FlipIsChecksumMismatch ==
    \A c \in Traversals :
        (ar.flip.idx > 0 /\ Len(c.out) >= ar.flip.idx) =>
            /\ AtFlipped(c).kind = "err"
            /\ AtFlipped(c).err \in {"Cksum", "IO"}

\* What the code does: the flipped header yields no entry, and the failure is
\* the checksum mismatch unless the flipped byte leaves the size field
\* undecodable; then it is the codec's failure, raised before the sums are
\* compared.
C5_FlipFails ==
    \A c \in Traversals :
        (ar.flip.idx > 0 /\ Len(c.out) >= ar.flip.idx) =>
            /\ AtFlipped(c).kind = "err"
            /\ AtFlipped(c).err = "Field" =>
                   ~HeaderSize(SrcSlice(HeaderOffset(ar.ents, ar.flip.idx), RecordLen)).ok
            /\ AtFlipped(c).err \in {"Cksum", "Field", "IO"}

\* The first byte of the size field of the second header is flipped to 0xFF,
\* and the cursor reports the codec's failure for that header.
C5_Witness ==
    /\ ar.flip = [idx |-> 2, at |-> SizeLo, val |-> 255]
    /\ ra # << >> /\ Len(ra[1].out) = 2
    /\ ra[1].out[1].kind = "entry" /\ ra[1].out[2] = ErrItem("Field")

\* Every entry the streaming cursor yielded was decoded from the header at its
\* place in the archive.
HeadersInPlace ==
    \A j \in 1..Len(ents) :
        ents[j].mode = "sm" =>
            /\ j <= Len(ar.ents)
            /\ ents[j].hdrAt = HeaderOffset(ar.ents, j)
            /\ ents[j].path = ar.ents[j].path /\ ents[j].size = ar.ents[j].size

\* C6: under the streaming cursor, a consumer that reads any k bytes of each
\* body, 0 <= k <= size, before it asks for the next entry still gets all N
\* entries of the archive, with the right headers, in order and with no error:
\* the next step discards the rest of the body and its padding.
C6_UnderReadStillYieldsAll ==
    (WellFormed(ar) /\ sm # << >> /\ sm[1].inOrder) =>
        YieldsExpected(sm[1]) /\ HeadersInPlace

\* A streaming traversal of two entries is done: one byte of the first body was
\* read, none of the second.
C6_Witness ==
    /\ WellFormed(ar) /\ Len(ar.ents) = 2
    /\ sm # << >> /\ sm[1].inOrder /\ sm[1].done /\ sm[1].out = Expected
    /\ Len(ents) = 2
    /\ ents[1].pos = 1 /\ ents[1].size > 1 /\ ents[2].pos = 0 /\ ents[2].size > 0

\* The last read on a random-access entry was issued at the source offset of
\* the entry's header + 512 + the entry's position, and returned the body's
\* bytes from there.
ReadInPlace(e) ==
    (e.mode = "ra" /\ e.rd.res = "ok" /\ e.rd.at # -1) =>
        /\ e.rd.at = e.hdrAt + RecordLen + e.rd.rel
        /\ e.pos = e.rd.rel + e.rd.n

\* C7: with a random-access cursor, however cursor steps and body reads on the
\* entries yielded so far interleave, a body read at relative offset r of the
\* entry whose header is at h reads from source offset h + 512 + r, and the
\* cursor yields the entries it yields when no body is read.
C7_ReadsDoNotDisturb ==
    /\ \A j \in 1..Len(ents) : ReadInPlace(ents[j])
    /\ WellFormed(ar) => \A i \in 1..Len(ra) : YieldsExpected(ra[i])

\* The cursor yielded two entries; then the first one's body was read for the
\* second time, from its second byte on, and the source sits inside that body.
C7_Witness ==
    /\ ra # << >> /\ Len(ents) = 2 /\ ents[1].mode = "ra"
    /\ ents[1].rd.res = "ok" /\ ents[1].rd.rel = 1 /\ ents[1].rd.n > 0
    /\ ents[1].rd.at = ents[1].hdrAt + RecordLen + 1
    /\ pos = ents[1].rd.at + ents[1].rd.n /\ pos < ents[2].hdrAt

\* What a complete traversal yields when a zero record and then a record that
\* is not all zero follow the entries.
ExpectedCorrupt == Append(Expected, ErrItem("ZeroBlock"))

\* C8: an archive of exactly two all-zero records yields no entry and no error
\* from either cursor; an all-zero record followed by a record that is not all
\* zero, a valid header or not, yields the header-corruption error ("found
\* block of 0s not followed by a second block of 0s") and no entry.  The same
\* holds after the entries of a longer archive.
C8_ZeroRecords ==
    \A c \in Traversals :
        NoIOErr(c.out) =>
            /\ ar.tail = "zz" =>
                   IF c.done THEN c.out = Expected ELSE IsPrefix(c.out, Expected)
            /\ ar.tail \in {"zj", "zh"} =>
                   IF c.done THEN c.out = ExpectedCorrupt
                   ELSE IsPrefix(c.out, Expected)

\* The source is a zero record and then a valid header; the streaming cursor
\* reported the corruption, yielded no entry, and was stepped once more.
C8_Witness ==
    /\ ar.ents = << >> /\ ar.tail = "zh"
    /\ sm # << >> /\ sm[1].done /\ sm[1].polled
    /\ sm[1].out = << ErrItem("ZeroBlock") >>

\* The least multiple of 512 that is >= s.
LeastMultiple(s) ==
    CHOOSE m \in { RecordLen * k : k \in 0..(s \div RecordLen + 1) } :
        m >= s /\ m - RecordLen < s

\* The entries that cursor cur yielded (0: the streaming cursor).
YieldedBy(cur) == { j \in 1..Len(ents) : ents[j].cur = cur }

\* The entry that cursor cur yielded last.
LastYielded(cur) == ents[CHOOSE j \in YieldedBy(cur) : \A k \in YieldedBy(cur) : k <= j]

\* The last step of the cursor yielded an entry.
JustYielded(c) == ~c.done /\ c.out # << >> /\ c.out[Len(c.out)].kind = "entry"

\* The cursor's next header offset is right after the span of the entry it
\* yielded last, and is a multiple of 512.
NextHeaderInPlace(c, cur) ==
    /\ c.at % RecordLen = 0
    /\ (JustYielded(c) /\ YieldedBy(cur) # { }) =>
           c.at = LastYielded(cur).hdrAt + RecordLen + LeastMultiple(LastYielded(cur).size)

\* C9: when a cursor yields an entry whose header starts at h and declares
\* size s, the cursor's next header offset becomes h + 512 + the least multiple
\* of 512 that is >= s; for s = 0, 1, 511, 512, 513 the body spans 0, 512, 512,
\* 512, 1024 bytes, and every header offset is a multiple of 512.
C9_NextHeaderOffset ==
    /\ << RoundUp(0), RoundUp(1), RoundUp(511), RoundUp(512), RoundUp(513) >>
           = << 0, 512, 512, 512, 1024 >>
    /\ \A i \in 1..Len(ra) : NextHeaderInPlace(AsCursor(ra[i], "ra"), i)
    /\ \A i \in 1..Len(sm) : NextHeaderInPlace(AsCursor(sm[i], "sm"), 0)
    /\ \A j \in 1..Len(ents) : ents[j].hdrAt % RecordLen = 0

\* The streaming cursor just yielded, as its second entry, one of 513 bytes:
\* its next header offset is 1536 bytes past that entry's header.
C9_Witness ==
    /\ sm # << >> /\ JustYielded(sm[1]) /\ Len(ents) = 2
    /\ ents[2].size = 513 /\ ents[2].hdrAt > 0
    /\ sm[1].next = ents[2].hdrAt + 1536

\* A piece of a path that names something below the directory it is in.
IsName(piece) == piece # << >> /\ piece # << DOT >>

\* Where unpack puts an entry whose path has no "..": the root, then the
\* path's names.
Sanitized(path) == Dst \o SelectSeq(SplitPath(path, << >>), IsName)

\* What unpack does with an entry when nothing fails.
Outcome(path) ==
    IF HasParentDir(path) THEN "SkipParent"
    ELSE IF Sanitized(path) = Dst THEN "SkipEmpty"
    ELSE "Written"

\* An iteration that skips for a ".." goes on to the next entry; one that writes
\* puts the entry's own body, whole, at its sanitized path and touches no other
\* file.
IterationDone(it, k) ==
    /\ it.what = "SkipParent" => up'.pc = "loop" /\ up'.ret = ""
    /\ it.what = "Written" =>
           /\ it.dst = Sanitized(it.path)
           /\ it.dst \in FilePaths(files')
           /\ FileAt(files', it.dst) = BodyOf(k, it.size)
           /\ { f \in files' : f.path # it.dst } = { f \in files : f.path # it.dst }

C10_Step ==
    (up'.log # up.log /\ up'.log # << >>) =>
        IterationDone(LastIter(up'.log), Len(up'.log))

\* An unpack of a well-formed archive fails only where a source or filesystem
\* failure was injected, and when it returns success it has gone through
\* every entry: skipped or written, each as its path demands.
C10_State ==
    WellFormed(ar) =>
        /\ up.ret \in {"Iterate", "Mkdir", "Write"} =>
               up.log # << >> /\ LastIter(up.log).fault
        /\ up.ret = "ok" =>
               /\ Len(up.log) = Len(ar.ents)
               /\ \A k \in 1..Len(up.log) :
                      /\ up.log[k].path = ar.ents[k].path
                      /\ up.log[k].what = Outcome(ar.ents[k].path)

\* C10: a skip for a ".." component is no error and does not stop the unpack:
\* unpack still returns success, and every later entry that is not skipped is
\* written at its sanitized path with exactly its own body (the skipped
\* entry's unread body is discarded, not taken for the next header or body).
C10_SkipIsNotAnError == []C10_State /\ [][C10_Step]_vars

\* An unpack returned success: it skipped "../e" (511 bytes, unread), then wrote
\* "d/g" with its 513 bytes.
C10_Witness ==
    /\ up.ret = "ok" /\ Len(up.log) = 2
    /\ up.log[1].what = "SkipParent" /\ up.log[1].size = 511
    /\ up.log[2].what = "Written" /\ up.log[2].dst = Sanitized(PathDG)
    /\ [path |-> Sanitized(PathDG), data |-> BodyOf(2, 513)] \in files

\* The fatal failures of an iteration of unpack.
Fatal == {"Iterate", "Mkdir", "Write"}

\* The files other than the one at p.
FilesBut(fl, p) == { f \in fl : f.path # p }

\* An iteration that fails ends the unpack with that failure; it leaves every
\* file and directory that was there (a failing write touches its own file
\* only).
FailureStops(it) ==
    it.what \in Fatal =>
        /\ up'.pc = "idle" /\ up'.ret = it.what /\ sm' = << >>
        /\ dirs \subseteq dirs'
        /\ IF it.what = "Write" THEN FilesBut(files', it.dst) = FilesBut(files, it.dst)
           ELSE files' = files

C11_Step ==
    /\ (up'.log # up.log /\ up'.log # << >>) => FailureStops(LastIter(up'.log))
    /\ up.pc = "idle" /\ up'.pc = "idle" => files' = files /\ dirs' = dirs

\* Of an unpack that failed: the failure is its last iteration, every entry
\* written before it is still there, and (on a well-formed archive) the source
\* was read no further than the failing entry.
C11_State ==
    up.ret \in Fatal =>
        /\ up.pc = "idle" /\ up.log # << >>
        /\ \A k \in 1..Len(up.log) :
               /\ up.log[k].what \in Fatal <=> k = Len(up.log)
               /\ up.log[k].what = "Written" => up.log[k].dst \in FilePaths(files)
        /\ (WellFormed(ar) /\ nsess = 1 /\ Len(up.log) < Len(ar.ents)) =>
               pos <= HeaderOffset(ar.ents, Len(up.log) + 1)

MutConstruction == nsess' = nsess + 1 /\ ra' = ra /\ ctor' # "IO"

\* The construction fails exactly when pos is not 0; a failed one reads
\* nothing, leaves pos and the filesystem as they were, and gives no cursor;
\* a successful one gives a cursor at offset 0.
C12_Step ==
    MutConstruction =>
        /\ ctor' = (IF pos = 0 THEN "ok" ELSE "NotAtStart")
        /\ pos' = pos /\ srcOff' = srcOff
        /\ files' = files /\ dirs' = dirs
        /\ IF pos = 0
           THEN sm' = << NewStream >> /\ up'.ret # "NotAtStart"
           ELSE sm' = << >> /\ up'.pc = "idle"

\* C12: constructing a streaming cursor (entries_mut), and so calling unpack,
\* fails whenever the Archive's position is not 0, for example after an earlier
\* traversal or unpack consumed bytes; the failed construction reads nothing,
\* leaves the position unchanged and writes nothing.  At position 0 it
\* succeeds.
C12_OnlyAtStart == [][C12_Step]_vars

\* A first unpack wrote a file and returned; a second unpack on the same
\* Archive was refused.
C12_Witness ==
    /\ nsess = 2 /\ ctor = "NotAtStart" /\ up.ret = "NotAtStart" /\ up.pc = "idle"
    /\ pos > 0 /\ files # { } /\ sm = << >>

\* Targets to seek to from a state: its position and others.
SeekTargets == {0, RecordLen, pos, pos + 1}

\* What _seek(target) gives (r) when called in I/O state s: at the position it
\* issues no seek and changes nothing; elsewhere it issues one seek, which sets
\* pos and the source to the target, or fails and leaves pos.
SeekIsLazy(r, s, target) ==
    IF target = s.pos THEN r.ok /\ r.s = s
    ELSE /\ r.s.seeks = s.seeks + 1
         /\ IF r.ok THEN r.s.pos = target /\ r.s.off = target ELSE r.s.pos = s.pos

\* The seek calls that the last read on a random-access entry issued: none when
\* the Archive was where the body read starts (or the body was at its end),
\* one otherwise.
ReadSought(e) ==
    (e.mode = "ra" /\ e.rd.res # "") =>
        e.rd.seeks = (IF e.rd.rel = e.size \/ e.rd.from = e.hdrAt + RecordLen + e.rd.rel
                      THEN 0 ELSE 1)

\* C13: _seek(target) with target equal to the current position issues no seek
\* on the source and leaves the position unchanged; with another target it
\* issues exactly one absolute seek and, when that succeeds, sets the position
\* to the target.
C13_SeekToPositionIsNoOp ==
    /\ \A target \in SeekTargets, fuse \in 0..MaxFuse :
           SeekIsLazy(Seek(S0(fuse), target), S0(fuse), target)
    /\ \A j \in 1..Len(ents) : ReadSought(ents[j])

\* A body read on a random-access entry went on where the read before it had
\* stopped: its seek found the Archive at the target and the source was not
\* sought.
C13_Witness ==
    /\ ents # << >> /\ ents[1].mode = "ra" /\ ents[1].rd.res = "ok"
    /\ ents[1].rd.rel > 0 /\ ents[1].rd.n > 0 /\ ents[1].rd.seeks = 0
    /\ ents[1].rd.from = ents[1].rd.at

\* C14: at every step of the streaming cursor next is at or past the Archive's
\* position (delta is never negative), provided the consumer keeps to the
\* protocol: it reads only the entry yielded last, before the next step, and no
\* more than the entry's size.  So the subtraction never underflows: the
\* program panics only after the protocol was broken.
C14_DeltaNeverNegative ==
    /\ (sm # << >> /\ sm[1].inOrder /\ ~sm[1].done) =>
           StreamDelta(sm[1].next, pos) >= 0
    /\ halted => sm # << >> /\ ~sm[1].inOrder

\* The streaming cursor yielded a second entry after part of the first one's
\* body was read, and the second body was read to its end: the cursor is not
\* done and next is past the position by the padding.
C14_Witness ==
    /\ sm # << >> /\ sm[1].inOrder /\ ~sm[1].done /\ Len(ents) = 2
    /\ ents[1].pos > 0 /\ ents[1].pos < ents[1].size
    /\ ents[2].size > 0 /\ ents[2].pos = ents[2].size
    /\ sm[1].next - pos = PadLen(ents[2].size) /\ sm[1].next > pos

\* Amounts to discard from a state: nothing, one byte, more than a short read
\* returns, a record, and more than the scratch buffer holds.
SkipAmounts == {0, 1, 101, RecordLen, SkipBufLen + 1}

\* What _skip(amt) gives (r) when called in I/O state s and no read fails: it
\* consumed exactly amt bytes, or the source ended before that and it failed
\* with "unexpected EOF during skip".
SkipIsExact(r, s, amt) ==
    IF r.ok THEN r.s.pos = s.pos + amt /\ r.s.off = s.off + amt
    ELSE r.err = "EofSkip" /\ r.s.off >= Len(src) /\ r.s.pos - s.pos < amt

\* The header of every entry the streaming cursor yielded was read where the
\* cursor's next was: at 0, then right after the span of the entry before.
StreamHeadersInPlace ==
    \A j \in 1..Len(ents) :
        ents[j].mode = "sm" =>
            ents[j].hdrAt = (IF j = 1 THEN 0
                             ELSE ents[j - 1].hdrAt + RecordLen
                                      + LeastMultiple(ents[j - 1].size))

\* A discard that met the end of the source left the cursor done, short of next.
EofSkipEnds(c) ==
    (c.inOrder /\ c.out # << >> /\ c.out[Len(c.out)] = ErrItem("EofSkip")) =>
        c.done /\ srcOff = Len(src) /\ pos < c.next

\* C15: the streaming discard consumes exactly delta bytes, never more, also
\* when the source returns short reads: on success the position equals next
\* when the header read begins; if the source returns 0 bytes before delta
\* bytes are discarded, the step fails with the unexpected-EOF failure and the
\* cursor is done.
C15_DiscardsExactly ==
    /\ \A amt \in SkipAmounts : SkipIsExact(Skip(S0(0), amt), S0(0), amt)
    /\ StreamHeadersInPlace
    /\ \A i \in 1..Len(sm) : EofSkipEnds(sm[i])

\* The source returns at most 100 bytes per read and lacks its last 300 bytes:
\* the streaming cursor yielded the entry, and the discard of its body and
\* padding met the end of the source.
C15_Witness ==
    /\ ar.tail = "short" /\ maxRead < RecordLen
    /\ sm # << >> /\ sm[1].inOrder /\ sm[1].done
    /\ Len(sm[1].out) = 2 /\ sm[1].out[1].kind = "entry"
    /\ sm[1].out[2] = ErrItem("EofSkip")

\* The sum of bytes lo..hi-1 of a header record, each byte unsigned, with the
\* eight bytes of the checksum field counted as spaces.
RECURSIVE BlankedSum(_, _, _)
BlankedSum(h, lo, hi) ==
    IF hi <= lo THEN 0
    ELSE IF hi = lo + 1
         THEN (IF lo \in CksumLo..(CksumHi - 1) THEN SP ELSE h[lo + 1])
    ELSE BlankedSum(h, lo, (lo + hi) \div 2) + BlankedSum(h, (lo + hi) \div 2, hi)

\* The header record at source offset h.
HeaderAt(h) == SrcSlice(h, RecordLen)

\* The header's size and checksum fields decode, and the stored checksum is not
\* the header's sum.
Mismatched(h) ==
    /\ HeaderSize(h).ok /\ HeaderCksum(h).ok
    /\ HeaderCksum(h).val # BlankedSum(h, 0, RecordLen)

\* What a traversal that has come to the flipped header reports for it, when
\* the header is mismatched: the checksum mismatch (or a failure of the
\* source), as the last item, and the cursor is done.
MismatchEnds(c) ==
    (/\ ar.flip.idx > 0 /\ Len(c.out) >= ar.flip.idx
     /\ Mismatched(HeaderAt(HeaderOffset(ar.ents, ar.flip.idx)))) =>
        /\ AtFlipped(c).kind = "err" /\ AtFlipped(c).err \in {"Cksum", "IO"}
        /\ Len(c.out) = ar.flip.idx /\ c.done

\* C16: every entry a cursor yields has a header whose stored checksum equals
\* sum(bytes[0..148]) + sum(bytes[156..512]) + 256, bytes unsigned; a header
\* whose size and checksum fields decode but whose stored checksum differs from
\* that sum yields the checksum-mismatch error and ends the traversal.
C16_ChecksumGuardsEntries ==
    /\ \A j \in 1..Len(ents) :
           /\ HeaderCksum(HeaderAt(ents[j].hdrAt)).ok
           /\ HeaderCksum(HeaderAt(ents[j].hdrAt)).val
                  = BlankedSum(HeaderAt(ents[j].hdrAt), 0, RecordLen)
    /\ \A c \in Traversals : MismatchEnds(c)

\* The last byte of the second header is flipped to 0xFF: the random-access
\* cursor yielded the first entry, then reported the mismatch, and is done.
C16_Witness ==
    /\ ar.flip = [idx |-> 2, at |-> RecordLen - 1, val |-> 255]
    /\ ra # << >> /\ ra[1].done /\ Len(ents) = 1
    /\ ra[1].out = << EntryItem(ar.ents[1]), ErrItem("Cksum") >>

\* What a complete traversal yields when the source ends before a whole
\* header record.
ExpectedTruncated == Append(Expected, ErrItem("EofBlock"))

\* The tails that end the source before a whole header record: nothing after
\* the last body (the empty source, when there is no entry), part of a header,
\* and one zero record alone.
EndsEarly == {"none", "part", "z"}

\* A header read from where the source stands, however short the source's
\* reads are: the next 512 bytes when the source has them, and else the
\* unexpected-EOF failure with the source at its end (or where a seek beyond
\* the end had left it).
HeaderReadIsWhole(r, s) ==
    IF Avail(s.off) >= RecordLen
    THEN /\ r.ok /\ r.buf = SrcSlice(s.off, RecordLen)
         /\ r.s.off = s.off + RecordLen /\ r.s.pos = s.pos + RecordLen
    ELSE /\ ~r.ok /\ r.err = "EofBlock"
         /\ r.s.off = (IF s.off > Len(src) THEN s.off ELSE Len(src))

\* C17: a source that ends before a complete 512-byte header (the empty
\* source, a source that ends right after the last body, one that ends inside
\* a header, one zero record and then the end) makes the step that reads that
\* header fail with the unexpected-EOF error, after every complete entry
\* before it was yielded; a header that the source delivers in several short
\* reads is assembled as if it came in one read.
C17_TruncatedIsEof ==
    /\ \A c \in Traversals :
           (NoIOErr(c.out) /\ ar.tail \in EndsEarly) =>
               IF c.done THEN c.out = ExpectedTruncated
               ELSE IsPrefix(c.out, Expected)
    /\ HeaderReadIsWhole(ReadAll(S0(0), RecordLen), S0(0))

\* The source delivers at most 100 bytes a read and ends inside the second
\* header: the random-access cursor yielded the first entry, then failed with
\* the unexpected EOF.
C17_Witness ==
    /\ ar.tail = "part" /\ maxRead < RecordLen /\ Len(ar.ents) = 1
    /\ ra # << >> /\ ra[1].done
    /\ ra[1].out = << EntryItem(ar.ents[1]), ErrItem("EofBlock") >>

\* The path is made of '/' and single '.' only: it names the root itself.
RootOnly(path) ==
    /\ \A i \in 1..Len(path) : path[i] \in {SLASH, DOT}
    /\ \A i \in 1..(Len(path) - 1) : ~(path[i] = DOT /\ path[i + 1] = DOT)

\* "/", ".", ".//." and "./"
RootOnlyPaths ==
    { << SLASH >>, << DOT >>, << DOT, SLASH, SLASH, DOT >>, << DOT, SLASH >> }

\* An iteration of unpack that got an entry whose path names the root only
\* skips it: no file, no directory, no failure, and the loop goes on.
C18_Step ==
    (/\ up'.log # up.log /\ up'.log # << >>
     /\ LastIter(up'.log).what # "Iterate"
     /\ RootOnly(LastIter(up'.log).path)) =>
        /\ LastIter(up'.log).what = "SkipEmpty"
        /\ files' = files /\ dirs' = dirs
        /\ up'.pc = "loop" /\ up'.ret = ""

\* The loop over the components leaves the destination at the root for each
\* such path.
C18_State ==
    \A p \in RootOnlyPaths :
        RootOnly(p) /\ PushParts(Components(p), 1, Dst) = [skip |-> FALSE, dst |-> Dst]

\* C18: during unpack an entry whose path has only prefix, root and
\* current-directory components (its destination is the root itself: "/", ".",
\* ".//.") is skipped silently: nothing is written or created for it, no error
\* is returned, and unpack goes on with the next entry.
C18_RootOnlyIsSkipped == []C18_State /\ [][C18_Step]_vars

\* An unpack returned success: it skipped "./" (1 byte of body), then wrote "f".
C18_Witness ==
    /\ up.ret = "ok" /\ Len(up.log) = 2
    /\ up.log[1].path = PathDot /\ up.log[1].what = "SkipEmpty"
    /\ up.log[2].path = PathF /\ up.log[2].what = "Written"
    /\ FilePaths(files) = { Append(Dst, Str_f) }

\* The cursors the entries came from, in the order they were yielded.
YieldOrder == [j \in 1..Len(ents) |-> ents[j].cur]

\* Which of its cursor's entries the j-th yielded entry is.
RankOf(j) == Cardinality({ i \in 1..j : ents[i].cur = ents[j].cur })

\* C19: several random-access cursors on one archive, stepped in any
\* interleaving (a cursor created while another is in the middle of its
\* traversal, or after one has finished, included), each yield the complete
\* entry sequence from the first header on, the same as one cursor alone
\* yields: each cursor's k-th entry is the archive's k-th, from the k-th header.
C19_CursorsAreIndependent ==
    /\ \A i \in 1..Len(ra) : YieldsExpected(ra[i])
    /\ \A j \in 1..Len(ents) :
           /\ ents[j].hdrAt = HeaderOffset(ar.ents, RankOf(j))
           /\ ents[j].path = ar.ents[RankOf(j)].path
           /\ ents[j].size = ar.ents[RankOf(j)].size

\* Two cursors over two entries, interleaved: the first yielded one entry, the
\* second was created then and yielded both, and the first then yielded its
\* second entry; both are done with the whole sequence.
C19_Witness ==
    /\ Len(ar.ents) = 2 /\ Len(ra) = 2
    /\ ra[1].done /\ ra[2].done
    /\ ra[1].out = Expected /\ ra[2].out = Expected
    /\ YieldOrder = << 1, 2, 2, 1 >>

\* A cursor that is not done.
Running ==
    /\ ~halted
    /\ \/ \E i \in 1..Len(ra) : ~ra[i].done
       \/ \E i \in 1..Len(sm) : ~sm[i].done

\* No cursor yields more items than the source has records, and one more.
YieldsBounded ==
    /\ \A i \in 1..Len(ra) : Len(ra[i].out) <= Len(src) \div RecordLen + 1
    /\ \A i \in 1..Len(sm) : Len(sm[i].out) <= Len(src) \div RecordLen + 1

\* A pass of the discard loop that stays in the loop has consumed at least one
\* byte of the source and of what is left to discard; a pass of the
\* header-read loop that stays in the loop has consumed at least one byte and
\* put it in the buffer.
PassConsumes ==
    /\ (run.pc = "skip" /\ run'.pc = "skip") =>
           /\ run'.amt < run.amt /\ run'.amt >= 0
           /\ srcOff' > srcOff /\ srcOff' - srcOff = run.amt - run'.amt
    /\ (run.pc = "read" /\ run'.pc = "read" /\ run'.zero = run.zero) =>
           /\ Len(run'.buf) > Len(run.buf) /\ Len(run'.buf) <= RecordLen
           /\ srcOff' - srcOff = Len(run'.buf) - Len(run.buf)

\* A step of a cursor that is not done ends the traversal, or yields an entry
\* and moves the cursor's next offset forward by at least one record.
StepAdvances ==
    /\ \A i \in 1..Len(ra) :
           (Len(ra') = Len(ra) /\ ra'[i] # ra[i] /\ ~ra[i].done) =>
               \/ ra'[i].done
               \/ /\ Len(ra'[i].out) = Len(ra[i].out) + 1
                  /\ ra'[i].out[Len(ra'[i].out)].kind = "entry"
                  /\ ra'[i].offset >= ra[i].offset + RecordLen
    /\ \A i \in 1..Len(sm) :
           (/\ Len(sm') = Len(sm) /\ ~sm[i].done
            /\ sm'[i].out # sm[i].out \/ sm'[i].next # sm[i].next) =>
               \/ sm'[i].done
               \/ /\ Len(sm'[i].out) = Len(sm[i].out) + 1
                  /\ sm'[i].out[Len(sm'[i].out)].kind = "entry"
                  /\ sm'[i].next >= sm[i].next + RecordLen

\* C20: over a finite source whose reads and seeks return, a cursor that is
\* stepped again and again comes to done (or is dropped, or the step panics):
\* each step that yields an entry moves the cursor's next offset forward by at
\* least 512, and each pass of the discard loop and of the header-read loop
\* consumes at least one byte or fails.
C20_TraversalTerminates ==
    /\ []YieldsBounded
    /\ [][PassConsumes /\ StepAdvances]_vars
    /\ (Running ~> ~Running)

\* Over a source that returns at most 100 bytes a read, the streaming cursor
\* yielded two entries, each header read in six passes, and came to done at the
\* end of the archive.
C20_Witness ==
    /\ maxRead < RecordLen /\ Len(ar.ents) = 2 /\ WellFormed(ar)
    /\ sm # << >> /\ sm[1].done /\ sm[1].out = Expected
    /\ sm[1].next = Len(src) /\ pos = Len(src) /\ run = NoRun

====
